---- MODULE Spec2Model ----
(***************************************************************************)
(* Model of quiz_app.py, a Streamlit quiz client.                          *)
(*                                                                         *)
(* Streamlit re-executes the whole script, top to bottom, once per user    *)
(* event (a button click or a widget change) against a per-user store,     *)
(* st.session_state, that survives between runs. st.rerun() abandons the   *)
(* current run and starts a fresh one with no button pressed.              *)
(*                                                                         *)
(* A run is not atomic. When a later user event arrives while a run is in  *)
(* progress, Streamlit tells that run to stop and runs the script again    *)
(* for the later event. The older run ends at the next point where it      *)
(* calls an st.* command or accesses st.session_state (reads, writes and   *)
(* deletions alike): what it has written so far stays written, it writes   *)
(* nothing more, and its st.rerun() is dropped. A handler can therefore be *)
(* left after any number of its writes:                                    *)
(*   - Start Quiz after 0..5 of the writes of lines 134, 136-139 (0 when   *)
(*     the later event came during requests.get, line 37);                 *)
(*   - Submit Answer after the record (168), the score (175), the          *)
(*     increment (181; the run sleeps at 185 and ends at 188) or the       *)
(*     end-of-quiz write (189; the run ends at st.rerun, 191);             *)
(*   - Play Again after any of the deletions of line 219.                  *)
(* A stopped run is an action of its own here (StartQuizStopped,           *)
(* SubmitAnswerStopped, PlayAgainStopped). It leaves the store as the      *)
(* writes made left it and, on the page, what the page before offered:     *)
(* the run for the later event is the action that follows, and it is the   *)
(* one that draws. A run stopped before it wrote anything changes nothing  *)
(* a later run can tell, and only Start Quiz, which has then called the    *)
(* API, has a step for it.                                                 *)
(*                                                                         *)
(* Every run starts with initialize_session_state (line 94), and nothing   *)
(* but a run reads the store: session_state is the store as a run finds it *)
(* after line 94, with the keys a stopped Play Again deleted created       *)
(* again.                                                                  *)
(*                                                                         *)
(* Strings are sequences of one-character strings, so that html.unescape   *)
(* is computed and not assumed. Python's 0-based list index i is position  *)
(* i+1 of a TLA+ sequence.                                                 *)
(***************************************************************************)
EXTENDS Integers, Sequences, FiniteSets, TLC

VARIABLES
    session_state,   \* st.session_state: the five keys of initialize_session_state
    selected_sports, \* value of the sidebar multiselect (a keyless widget)
    page,            \* what the last run that drew left on the page
    last_run,        \* the user event that caused the last run, and what it did
    log,             \* history: the submits since the session started, kept
                     \* while no run of the session was stopped
    stopped_runs     \* history: how many runs of the session a later event
                     \* stopped

vars == <<session_state, selected_sports, page, last_run, log, stopped_runs>>

----------------------------------------------------------------------------
(* Bounds *)

\* Longest question list the API is modelled to return.
MaxQuestions == 2

\* How many of the entries of SPORTS_CATEGORIES the multiselect offers.
NumSports == 1

\* How many stopped runs are followed in one session, from a Start Quiz or
\* Play Again that ran to its end to the next.
MaxStops == 1

----------------------------------------------------------------------------
(* Generic helpers *)

Range(s) == {s[i] : i \in DOMAIN s}

\* All orders random.shuffle can leave a list of n elements in.
Perms(n) == {p \in [1..n -> 1..n] : \A i, j \in 1..n : p[i] = p[j] => i = j}

\* random.shuffle(xs) with the outcome perm: position i receives xs[perm[i]].
Shuffle(xs, perm) == [i \in 1..Len(xs) |-> xs[perm[i]]]

\* Number of positions of xs holding x.
Count(xs, x) == Cardinality({i \in DOMAIN xs : xs[i] = x})

\* Same elements with the same multiplicities.
IsPermutationOf(xs, ys) ==
    /\ Len(xs) = Len(ys)
    /\ \A x \in Range(xs) \cup Range(ys) : Count(xs, x) = Count(ys, x)

----------------------------------------------------------------------------
(* html.unescape, restricted to the characters A B C X Y Q a m p & ;       *)

\* Characters the character-reference pattern accepts in a name:
\* anything but tab, newline, form feed, space, < & # ;
NameChar(c) == c \notin {"&", "#", ";", " ", "<"}

\* html.entities.html5, restricted to the names spellable with the
\* characters above. Code points outside ASCII are written U+xxxx.
Html5Names ==
    { <<"a","m","p">>, <<"a","m","p",";">>, <<"a","p",";">>,
      <<"C","a","p",";">>, <<"m","a","p",";">>, <<"m","p",";">>,
      <<"p","m",";">> }

Html5(name) ==
    CASE name = <<"a","m","p">>       -> <<"&">>
      [] name = <<"a","m","p",";">>   -> <<"&">>
      [] name = <<"a","p",";">>       -> <<"U+2248">>
      [] name = <<"C","a","p",";">>   -> <<"U+22D2">>
      [] name = <<"m","a","p",";">>   -> <<"U+21A6">>
      [] name = <<"m","p",";">>       -> <<"U+2213">>
      [] name = <<"p","m",";">>       -> <<"U+00B1">>

\* Length of the run of name characters of s starting at position i.
RECURSIVE NameRun(_, _)
NameRun(s, i) ==
    IF i <= Len(s) /\ NameChar(s[i]) THEN 1 + NameRun(s, i + 1) ELSE 0

\* The longest proper prefix of ref, of length x down to 2, that is an
\* entity name; 0 when there is none.
RECURSIVE LongestPrefix(_, _)
LongestPrefix(ref, x) ==
    IF x < 2 THEN 0
    ELSE IF SubSeq(ref, 1, x) \in Html5Names THEN x
    ELSE LongestPrefix(ref, x - 1)

\* html._replace_charref for a named reference (the text after the &).
replace_charref(ref) ==
    IF ref \in Html5Names THEN Html5(ref)
    ELSE LET x == LongestPrefix(ref, Len(ref) - 1)
         IN  IF x > 0
             THEN Html5(SubSeq(ref, 1, x)) \o SubSeq(ref, x + 1, Len(ref))
             ELSE <<"&">> \o ref

\* re.sub over the string from position i on: leftmost matches, left to right.
RECURSIVE UnescapeFrom(_, _)
UnescapeFrom(s, i) ==
    IF i > Len(s) THEN <<>>
    ELSE IF s[i] = "&" /\ NameRun(s, i + 1) >= 1
    THEN LET n    == NameRun(s, i + 1)
             semi == i + n + 1 <= Len(s) /\ s[i + n + 1] = ";"
             ref  == SubSeq(s, i + 1, i + n + (IF semi THEN 1 ELSE 0))
         IN  replace_charref(ref) \o UnescapeFrom(s, i + 1 + Len(ref))
    ELSE <<s[i]>> \o UnescapeFrom(s, i + 1)

\* html.unescape: a string without & is returned as it is.
html_unescape(s) == IF "&" \notin Range(s) THEN s ELSE UnescapeFrom(s, 1)

----------------------------------------------------------------------------
(* Inputs: what the trivia API can answer *)

\* Raw question objects as the API returns them (HTML-encoded strings).
Q1 == [text |-> <<"Q","A">>,
       correctAnswer |-> <<"A">>,
       incorrectAnswers |-> << <<"B">> >>]

Q2 == [text |-> <<"Q","X">>,
       correctAnswer |-> <<"X">>,
       incorrectAnswers |-> << <<"Y">> >>]

\* Correct answer "A&amp;B", wrong answer "A&B": both are displayed as "A&B".
Q3 == [text |-> <<"Q","&","a","m","p",";","A">>,
       correctAnswer |-> <<"A","&","a","m","p",";","B">>,
       incorrectAnswers |-> << <<"A","&","B">> >>]

\* The questions the API draws from.
QuestionPool == {Q1, Q2, Q3}

\* The strings of these questions.
PoolStrings ==
    UNION {{q.text, q.correctAnswer} \cup Range(q.incorrectAnswers) :
             q \in QuestionPool}

\* html_unescape, computed once for each of them.
Unescaped == [s \in PoolStrings |-> html_unescape(s)]

\* html.unescape as the script calls it.
unescape(s) == IF s \in PoolStrings THEN Unescaped[s] ELSE html_unescape(s)

\* Bodies of a 2xx response: a JSON list of 0..MaxQuestions questions, in
\* any order, a question any number of times (line 40 returns the list as
\* it was sent).
QuestionLists == UNION {[1..n -> QuestionPool] : n \in 0..MaxQuestions}

\* Outcomes of requests.get + raise_for_status + response.json().
Responses ==
    {[outcome |-> "ok", body |-> b] : b \in QuestionLists}
      \cup {[outcome |-> "transport", body |-> <<>>],
            [outcome |-> "decode", body |-> <<>>]}

\* SPORTS_CATEGORIES.keys(), in dictionary order.
SportsKeys ==
    << "Football", "Basketball", "Baseball", "Soccer", "Hockey",
       "Tennis", "Golf", "Boxing", "MMA", "Motorsport" >>

Sports == {SportsKeys[i] : i \in 1..NumSports}

----------------------------------------------------------------------------
(* Helper functions of the script *)

\* fetch_quiz_questions: the parsed body, or [] after either except clause.
fetch_quiz_questions(response) ==
    IF response.outcome = "ok" THEN response.body ELSE <<>>

\* display_question returning the correct answer as the API sent it.
display_question_raw_correct(question_data, perm) ==
    LET options == Shuffle(question_data.incorrectAnswers
                             \o <<question_data.correctAnswer>>, perm)
    IN  [decoded_options |-> [i \in DOMAIN options |-> unescape(options[i])],
         correct_answer  |-> question_data.correctAnswer,
         question_data   |-> question_data]

\* display_question appending to and shuffling the stored list itself.
display_question_in_place(question_data, perm) ==
    LET options == Shuffle(question_data.incorrectAnswers
                             \o <<question_data.correctAnswer>>, perm)
    IN  [decoded_options |-> [i \in DOMAIN options |-> unescape(options[i])],
         correct_answer  |-> unescape(question_data.correctAnswer),
         question_data   |-> [question_data EXCEPT !.incorrectAnswers = options]]

\* display_question, lines 63-72, with the outcome perm of random.shuffle.
\* options is a new list (list + list), so the shuffle leaves question_data
\* as it was; question_data is returned to make that visible.
display_question(question_data, perm) ==
    LET options == Shuffle(question_data.incorrectAnswers
                             \o <<question_data.correctAnswer>>, perm)
        decoded_options == [i \in DOMAIN options |-> unescape(options[i])]
    IN  [decoded_options |-> decoded_options,
         correct_answer  |-> unescape(question_data.correctAnswer),
         question_data   |-> question_data]

\* Values of the keys initialize_session_state creates.
Defaults ==
    [quiz_started |-> FALSE, questions |-> <<>>, score |-> 0,
     current_question |-> 0, user_answers |-> <<>>]

\* initialize_session_state: each key is set only if it is not in the store.
initialize_session_state(ss) ==
    [k \in DOMAIN ss \cup DOMAIN Defaults |->
        IF k \in DOMAIN ss THEN ss[k] ELSE Defaults[k]]

----------------------------------------------------------------------------
(* The script, by section *)

\* Truth value of a Python dict: it has at least one key.
NonEmptyDict(d) == DOMAIN d # {}

\* Lines 136-139: the state a successful start leaves, given the store
\* holding the new list.
Started(stored) ==
    [stored EXCEPT !.quiz_started = TRUE, !.score = 0,
                   !.current_question = 0, !.user_answers = <<>>]


\* Start Quiz without the test that a category is selected.
start_quiz_no_guard(ss, sports, response) ==
    LET questions == fetch_quiz_questions(response)
        stored    == [ss EXCEPT !.questions = questions]
    IN  [session_state |-> IF questions # <<>> THEN Started(stored) ELSE stored,
         fetched |-> TRUE, fetched_len |-> Len(questions),
         notice |-> IF response.outcome = "ok" THEN "none" ELSE response.outcome,
         rerun |-> questions # <<>>]

\* Start Quiz resetting score, index and answers before it looks at the
\* fetched list.
start_quiz_reset_first(ss, sports, response) ==
    IF sports = {}
    THEN [session_state |-> ss, fetched |-> FALSE, fetched_len |-> 0,
          notice |-> "warning", rerun |-> FALSE]
    ELSE LET questions == fetch_quiz_questions(response)
             stored    == [ss EXCEPT !.questions = questions, !.score = 0,
                                     !.current_question = 0,
                                     !.user_answers = <<>>]
         IN  [session_state |-> IF questions # <<>>
                                THEN [stored EXCEPT !.quiz_started = TRUE]
                                ELSE stored,
              fetched |-> TRUE, fetched_len |-> Len(questions),
              notice |-> IF questions # <<>> \/ response.outcome = "ok"
                         THEN "none" ELSE response.outcome,
              rerun |-> questions # <<>>]

\* Lines 127-140, the Start Quiz button was pressed and the run was not
\* stopped.
\*   session_state : the store after the handler
\*   fetched       : whether fetch_quiz_questions was called
\*   fetched_len   : how many questions it returned
\*   notice        : the st.warning / st.error the handler reported
\*   rerun         : whether the handler ended in st.rerun()
start_quiz(ss, sports, response) ==
    IF sports = {}
    THEN [session_state |-> ss, fetched |-> FALSE, fetched_len |-> 0,
          notice |-> "warning", rerun |-> FALSE]
    ELSE LET questions == fetch_quiz_questions(response)
             stored    == [ss EXCEPT !.questions = questions]
         IN  IF questions # <<>>
             THEN [session_state |-> Started(stored),
                   fetched |-> TRUE, fetched_len |-> Len(questions),
                   notice |-> "none", rerun |-> TRUE]
             ELSE [session_state |-> stored, fetched |-> TRUE,
                   fetched_len |-> Len(questions),
                   notice |-> IF response.outcome = "ok" THEN "none"
                              ELSE response.outcome,
                   rerun |-> FALSE]

\* The keys the Start Quiz handler writes, in the order of lines 134 and
\* 136-139.
StartWrites ==
    << "questions", "quiz_started", "score", "current_question",
       "user_answers" >>

\* How many of its writes a start run can have made when it is stopped:
\* none (the later event came during requests.get, or before line 134), the
\* list alone (stopped at line 135 or 136), ..., all five (stopped at
\* st.rerun, line 140). An empty list is followed by no other write.
StartStops(response) ==
    IF fetch_quiz_questions(response) = <<>> THEN 0..1
    ELSE 0..Len(StartWrites)

\* What a stopped start run has reported. After a failed fetch the next
\* command of the run is the st.error of line 42 or 45: a run told to stop
\* during requests.get ends inside it and shows nothing; a run told to stop
\* later has shown the error and ends at the write of line 134 or, with the
\* empty list written, at the read of line 135.
StoppedNotices(response, writes) ==
    IF response.outcome = "ok" THEN {"none"}
    ELSE IF writes = 0 THEN {"none", response.outcome}
    ELSE {response.outcome}

\* Lines 134-139 of a start run that a later event stopped after `writes`
\* of its writes.
start_quiz_stopped(ss, response, writes) ==
    LET questions == fetch_quiz_questions(response)
        full      == Started([ss EXCEPT !.questions = questions])
        written   == {StartWrites[i] : i \in 1..writes}
    IN  [k \in DOMAIN ss |-> IF k \in written THEN full[k] ELSE ss[k]]

\* Line 188: the question just answered was the last one.
quiz_over(ss) == ss.current_question >= Len(ss.questions)

\* Lines 166-189, the Submit Answer button was pressed and the run was not
\* stopped; user_answer and correct_answer are what display_question
\* returned in this run.
submit_answer(ss, user_answer, correct_answer) ==
    LET index    == ss.current_question
        recorded == [i \in DOMAIN ss.user_answers \cup {index} |->
                        IF i = index
                        THEN [user_choice |-> user_answer,
                              correct_answer |-> correct_answer]
                        ELSE ss.user_answers[i]]
        scored   == [ss EXCEPT !.user_answers = recorded,
                               !.score = IF user_answer = correct_answer
                                         THEN @ + 1 ELSE @]
        advanced == [scored EXCEPT !.current_question = @ + 1]
    IN  IF quiz_over(advanced)
        THEN [advanced EXCEPT !.quiz_started = FALSE]
        ELSE advanced

\* The points at which a submit run that has written can be stopped:
\*   "record"    : the record is written (168-171); stopped at line 175, or
\*                 inside st.error (178) after a wrong answer;
\*   "score"     : and the score (175); stopped inside st.success (176) or at
\*                 line 181;
\*   "increment" : and current_question (181); the later event came during
\*                 time.sleep (185) or before, and the run ends at the read
\*                 of line 188, so that line 189 is not reached;
\*   "rerun"     : and quiz_started, if the quiz is over (189); stopped at
\*                 st.rerun (191), which is dropped.
SubmitStops == {"record", "score", "increment", "rerun"}

\* Lines 166-189 of a submit run that a later event stopped at `stop`.
submit_answer_stopped(ss, user_answer, correct_answer, stop) ==
    LET index    == ss.current_question
        recorded == [ss EXCEPT !.user_answers =
                        [i \in DOMAIN ss.user_answers \cup {index} |->
                            IF i = index
                            THEN [user_choice |-> user_answer,
                                  correct_answer |-> correct_answer]
                            ELSE ss.user_answers[i]]]
        scored   == [recorded EXCEPT !.score = IF user_answer = correct_answer
                                               THEN @ + 1 ELSE @]
        advanced == [scored EXCEPT !.current_question = @ + 1]
    IN  CASE stop = "record"    -> recorded
          [] stop = "score"     -> scored
          [] stop = "increment" -> advanced
          [] stop = "rerun"     -> IF quiz_over(advanced)
                                   THEN [advanced EXCEPT !.quiz_started = FALSE]
                                   ELSE advanced

\* Lines 216-219, the Play Again button was pressed and the run was not
\* stopped: every key is deleted.
play_again(ss) == [k \in DOMAIN ss \ DOMAIN ss |-> ss[k]]

\* Lines 218-219 of a Play Again run that a later event stopped when it had
\* deleted the keys `deleted`. The loop takes the keys in the order of
\* st.session_state.keys(), which the script does not fix: any keys can be
\* the ones deleted so far.
play_again_stopped(ss, deleted) == [k \in DOMAIN ss \ deleted |-> ss[k]]

\* Line 152: the question branch of the main area is taken.
ShowsQuestion(ss) == ss.quiz_started /\ ss.questions # <<>>

\* Line 155: st.progress raises for a value above 1.0, which
\* (current_question + 1) / len(questions) is once current_question has
\* reached len(questions); the run ends there.
Raises(ss) == ShowsQuestion(ss) /\ ss.current_question >= Len(ss.questions)

\* Lines 160-163: the current question is read and displayed.
DrawsQuestion(ss) == ShowsQuestion(ss) /\ ~Raises(ss)

\* The number of options of the longest question of the pool.
MostOptions ==
    CHOOSE n \in {Len(q.incorrectAnswers) + 1 : q \in QuestionPool} :
        \A q \in QuestionPool : Len(q.incorrectAnswers) + 1 <= n

\* Perms, tabulated for the option counts that occur.
ShuffleOutcomes == [n \in 1..MostOptions |-> Perms(n)]

\* The outcomes random.shuffle can have in a run over ss (none when no
\* question is displayed).
ShuffleChoices(ss) ==
    IF DrawsQuestion(ss)
    THEN ShuffleOutcomes[
             Len(ss.questions[ss.current_question + 1].incorrectAnswers) + 1]
    ELSE {<<>>}

\* Lines 203-213: one review entry per question that has an answer record,
\* in question order.
RECURSIVE ReviewFrom(_, _)
ReviewFrom(ss, i) ==
    IF i >= Len(ss.questions) THEN <<>>
    ELSE LET rest == ReviewFrom(ss, i + 1)
         IN  IF i \in DOMAIN ss.user_answers
             THEN << [index |-> i,
                      text |-> unescape(ss.questions[i + 1].text),
                      user_choice |-> ss.user_answers[i].user_choice,
                      correct_answer |-> ss.user_answers[i].correct_answer,
                      is_correct |-> ss.user_answers[i].user_choice
                                       = ss.user_answers[i].correct_answer] >>
                  \o rest
             ELSE rest

\* Lines 195-213, the results block (without its button).
results_block(ss) ==
    IF ~ss.quiz_started /\ NonEmptyDict(ss.user_answers)
    THEN [results |-> TRUE, final_score |-> ss.score,
          total |-> Len(ss.questions), review |-> ReviewFrom(ss, 0)]
    ELSE [results |-> FALSE, final_score |-> 0, total |-> 0, review |-> <<>>]

\* submit_key of a page without the Submit Answer button.
NoKey == -1

\* Lines 149-213 with neither Submit Answer nor Play Again pressed: the
\* store afterwards and the page rendered.
\*   main        : what the main area shows ("error": the run raised at 155)
\*   options     : the radio's options, in the order displayed
\*   results, final_score, total, review : the results block
\*   seen        : the store the run read
\*   submit_key  : the index in the key of the Submit Answer button (166)
\*   play_again  : whether the Play Again button is on the page (216)
main_area(ss, perm) ==
    LET shown == display_question(ss.questions[ss.current_question + 1], perm)
        res   == results_block(ss)
    IN  [session_state |->
             IF DrawsQuestion(ss)
             THEN [ss EXCEPT !.questions[ss.current_question + 1] =
                                 shown.question_data]
             ELSE ss,
         page |->
             [main    |-> IF ~ss.quiz_started THEN "welcome"
                          ELSE IF Raises(ss) THEN "error"
                          ELSE IF ShowsQuestion(ss) THEN "question"
                          ELSE "blank",
              options |-> IF DrawsQuestion(ss) THEN shown.decoded_options
                          ELSE <<>>,
              results |-> res.results,
              final_score |-> res.final_score,
              total   |-> res.total,
              review  |-> res.review,
              seen    |-> ss,
              submit_key |-> IF DrawsQuestion(ss) THEN ss.current_question
                             ELSE NoKey,
              play_again |-> res.results]]

\* A whole run of the script with no button pressed.
run_script(ss, perm) == main_area(initialize_session_state(ss), perm)

\* The page a stopped run leaves. What the run drew is dropped, and the
\* elements of the page before stay in the browser, marked as out of date,
\* until the run of the later event replaces them: what counts of them is
\* the buttons the user can still press.
Stale(p) ==
    [main |-> "stale", options |-> <<>>, results |-> FALSE,
     final_score |-> 0, total |-> 0, review |-> <<>>, seen |-> <<>>,
     submit_key |-> p.submit_key, play_again |-> p.play_again]

----------------------------------------------------------------------------
(* State machine *)

\* The status the script distinguishes by its branches at lines 149 and 195.
Status(ss) ==
    IF ss.quiz_started THEN "InProgress"
    ELSE IF NonEmptyDict(ss.user_answers) THEN "Finished"
    ELSE "NotStarted"

\* What is remembered of the last user event: the button or widget, the
\* status a Start Quiz that ran to its end found, and what the Start Quiz
\* handler did.
RunRecord(event, r) ==
    [event |-> event,
     from |-> IF event = "start" THEN Status(session_state) ELSE "any",
     fetched |-> r.fetched, fetched_len |-> r.fetched_len, notice |-> r.notice,
     fetched_questions |-> r.fetched_questions]

NoStart == [fetched |-> FALSE, fetched_len |-> 0, notice |-> "none",
            fetched_questions |-> <<>>]

\* What a run of the Start Quiz handler leaves to remember: its report r and
\* the list fetch_quiz_questions handed it, if it was called.
StartRecord(r, response) ==
    [fetched |-> r.fetched, fetched_len |-> r.fetched_len, notice |-> r.notice,
     fetched_questions |-> IF r.fetched THEN fetch_quiz_questions(response)
                           ELSE <<>>]

Init ==
    /\ session_state = initialize_session_state(<<>>)
    /\ selected_sports = {SportsKeys[1]}
    /\ page = run_script(<<>>, <<>>).page
    /\ last_run = [event |-> "load", from |-> "NotStarted", fetched |-> FALSE,
                   fetched_len |-> 0, notice |-> "none",
                   fetched_questions |-> <<>>]
    /\ log = <<>>
    /\ stopped_runs = 0

\* The user presses Start Quiz in the sidebar, which every page has, and the
\* run is not stopped: lines 127-140 and, after a non-empty fetch, the rerun
\* of line 140.
StartQuiz ==
    \E response \in Responses :
        LET r == start_quiz(session_state, selected_sports, response)
        IN  \E perm \in ShuffleChoices(r.session_state) :
                LET run == IF r.rerun
                           THEN run_script(r.session_state, perm)
                           ELSE main_area(r.session_state, perm)
                IN  /\ session_state' = run.session_state
                    /\ page' = run.page
                    /\ last_run' = RunRecord("start", StartRecord(r, response))
                    /\ log' = IF r.rerun THEN <<>> ELSE log
                    /\ stopped_runs' = IF r.rerun THEN 0 ELSE stopped_runs
                    /\ UNCHANGED selected_sports

\* The user presses Start Quiz with a category selected, and a later event
\* stops the run after some of the writes of lines 134-139.
StartQuizStopped ==
    /\ selected_sports # {}
    /\ stopped_runs < MaxStops
    /\ \E response \in Responses :
       \E writes \in StartStops(response) :
       \E notice \in StoppedNotices(response, writes) :
           LET fetched == fetch_quiz_questions(response)
           IN  /\ session_state' =
                      start_quiz_stopped(session_state, response, writes)
               /\ page' = Stale(page)
               /\ last_run' = RunRecord("start_stopped",
                      [fetched |-> TRUE, fetched_len |-> Len(fetched),
                       notice |-> notice, fetched_questions |-> fetched])
               /\ log' = <<>>
               /\ stopped_runs' = stopped_runs + 1
               /\ UNCHANGED selected_sports

\* The Submit Answer button of the page is drawn again by a run over the
\* store: the page has the button, the run reaches line 166, and the key
\* submit_<current_question> is the one that was pressed.
SubmitPressed ==
    /\ page.submit_key # NoKey
    /\ DrawsQuestion(session_state)
    /\ page.submit_key = session_state.current_question

\* A run of the session was stopped by a later event.
interrupted == stopped_runs > 0

\* The user presses Submit Answer under the displayed question and the run
\* is not stopped: lines 166-191, then the rerun of line 191.
SubmitAnswer ==
    /\ SubmitPressed
    /\ \E perm \in ShuffleChoices(session_state) :
        LET index == session_state.current_question
            shown == display_question(session_state.questions[index + 1], perm)
            drawn == [session_state EXCEPT !.questions[index + 1] =
                                               shown.question_data]
        IN  \E user_answer \in Range(shown.decoded_options) :
                LET written == submit_answer(drawn, user_answer,
                                             shown.correct_answer)
                IN  \E next_perm \in ShuffleChoices(written) :
                        LET run == run_script(written, next_perm)
                        IN  /\ session_state' = run.session_state
                            /\ page' = run.page
                            /\ last_run' = RunRecord("submit", NoStart)
                            /\ log' = IF interrupted THEN <<>>
                                      ELSE Append(log,
                                               [index |-> index,
                                                choice |-> user_answer,
                                                question |->
                                                    session_state.questions[index + 1]])
                            /\ UNCHANGED <<selected_sports, stopped_runs>>

\* The user presses Submit Answer and a later event stops the run after the
\* record was written.
SubmitAnswerStopped ==
    /\ SubmitPressed
    /\ stopped_runs < MaxStops
    /\ \E perm \in ShuffleChoices(session_state) :
        LET index == session_state.current_question
            shown == display_question(session_state.questions[index + 1], perm)
            drawn == [session_state EXCEPT !.questions[index + 1] =
                                               shown.question_data]
        IN  \E user_answer \in Range(shown.decoded_options) :
            \E stop \in SubmitStops :
                /\ session_state' =
                       submit_answer_stopped(drawn, user_answer,
                                             shown.correct_answer, stop)
                /\ page' = Stale(page)
                /\ last_run' = RunRecord("submit_stopped", NoStart)
                /\ log' = <<>>
                /\ stopped_runs' = stopped_runs + 1
                /\ UNCHANGED selected_sports

\* The Play Again button of the page is drawn again by a run over the store
\* (line 195 holds).
PlayAgainPressed ==
    /\ page.play_again
    /\ results_block(session_state).results

\* The user presses Play Again and the run is not stopped: lines 216-220,
\* then the rerun of line 220.
PlayAgain ==
    /\ PlayAgainPressed
    /\ LET cleared == play_again(session_state)
       IN  \E perm \in ShuffleChoices(initialize_session_state(cleared)) :
               LET run == run_script(cleared, perm)
               IN  /\ session_state' = run.session_state
                   /\ page' = run.page
                   /\ last_run' = RunRecord("play_again", NoStart)
                   /\ log' = <<>>
                   /\ stopped_runs' = 0
                   /\ UNCHANGED selected_sports

\* The user presses Play Again and a later event stops the run when it has
\* deleted some of the keys, or all of them (stopped at st.rerun, 220). The
\* run that follows creates the deleted keys again (line 94).
PlayAgainStopped ==
    /\ PlayAgainPressed
    /\ stopped_runs < MaxStops
    /\ \E deleted \in (SUBSET DOMAIN session_state) \ {{}} :
           /\ session_state' = initialize_session_state(
                                   play_again_stopped(session_state, deleted))
           /\ page' = Stale(page)
           /\ last_run' = RunRecord("play_again_stopped", NoStart)
           /\ log' = <<>>
           /\ stopped_runs' = stopped_runs + 1
           /\ UNCHANGED selected_sports

\* The user changes the category multiselect: a run with no button pressed.
ChangeSports ==
    \E sports \in (SUBSET Sports) \ {selected_sports} :
        \E perm \in ShuffleChoices(session_state) :
            LET run == run_script(session_state, perm)
            IN  /\ selected_sports' = sports
                /\ session_state' = run.session_state
                /\ page' = run.page
                /\ last_run' = RunRecord("widget", NoStart)
                /\ UNCHANGED <<log, stopped_runs>>

\* The user changes the difficulty radio or the number input of the
\* sidebar: a run with no button pressed.
ChangeSettings ==
    \E perm \in ShuffleChoices(session_state) :
        LET run == run_script(session_state, perm)
        IN  /\ session_state' = run.session_state
            /\ page' = run.page
            /\ last_run' = RunRecord("widget", NoStart)
            /\ UNCHANGED <<selected_sports, log, stopped_runs>>

\* The user picks an option of the radio the page has: a run with no button
\* pressed.
SelectOption ==
    /\ page.submit_key # NoKey
    /\ \E perm \in ShuffleChoices(session_state) :
           LET run == run_script(session_state, perm)
           IN  /\ session_state' = run.session_state
               /\ page' = run.page
               /\ last_run' = RunRecord("widget", NoStart)
               /\ UNCHANGED <<selected_sports, log, stopped_runs>>

Next ==
    \/ StartQuiz
    \/ StartQuizStopped
    \/ SubmitAnswer
    \/ SubmitAnswerStopped
    \/ PlayAgain
    \/ PlayAgainStopped
    \/ ChangeSports
    \/ ChangeSettings
    \/ SelectOption

Spec == Init /\ [][Next]_vars

----------------------------------------------------------------------------
(* Properties *)

\* The submits of the log whose choice was the decoded correct answer of
\* the question they answered.
CorrectSubmits ==
    {i \in DOMAIN log :
        log[i].choice = unescape(log[i].question.correctAnswer)}

\* A step in which Submit Answer was pressed, the run completed or stopped.
Submitted == last_run.event \in {"submit", "submit_stopped"}

\* C1: once as many answers have been submitted as the session has
\* questions, with no other event of the user between the submits (so that
\* no run of the session was stopped), the score is the number of submits
\* whose choice was the decoded correct answer of the question then
\* current, and each answer's record is correct exactly when its submit was.
C1_ScoreCountsCorrectSubmits ==
    (last_run.event = "submit" /\ ~interrupted
       /\ Len(log) = Len(session_state.questions))
        => /\ session_state.score = Cardinality(CorrectSubmits)
           /\ \A i \in DOMAIN log :
                  /\ log[i].index \in DOMAIN session_state.user_answers
                  /\ (i \in CorrectSubmits) <=>
                       (session_state.user_answers[log[i].index].user_choice
                          = session_state.user_answers[log[i].index].correct_answer)

\* The scenario of the specification: the correct A, then the wrong Y, on
\* the questions Q1, Q2.
C1_Witness ==
    /\ last_run.event = "submit"
    /\ session_state.questions = <<Q1, Q2>>
    /\ ~interrupted
    /\ log = << [index |-> 0, choice |-> <<"A">>, question |-> Q1],
                [index |-> 1, choice |-> <<"Y">>, question |-> Q2] >>
    /\ session_state.score = 1
    /\ page.review[1].is_correct
    /\ ~page.review[2].is_correct

\* C2: every Submit Answer of a session of n questions advances
\* current_question by one, from k - 1 to k <= n (so that the k-th submit
\* leaves it at k), and leaves the session in progress when k < n and
\* finished (quiz_started false, current_question = n, results rendered)
\* when k = n.
C2_FinishedExactlyAfterLastSubmit ==
    [][Submitted' =>
        LET n == Len(session_state.questions)
            k == session_state.current_question + 1
        IN  /\ session_state.quiz_started
            /\ k <= n
            /\ session_state'.current_question = k
            /\ IF k < n
               THEN /\ session_state'.quiz_started
                    /\ page'.main = "question"
                    /\ ~page'.results
               ELSE /\ ~session_state'.quiz_started
                    /\ page'.results]_vars

\* C3: a run that leaves the session as it was, and so displays the same
\* question again, displays its options in the same order.
C3_StableOptionOrder ==
    [][(page.main = "question" /\ page'.main = "question"
          /\ session_state' = session_state /\ page'.seen = page.seen)
        => page'.options = page.options]_vars

\* The question the page on display was drawn from.
ShownQuestion == page.seen.questions[page.seen.current_question + 1]

\* C4: the options on display are the decoded incorrect answers and the
\* decoded correct answer of the question they were drawn from, each as
\* often as it occurs there; displaying a question leaves the stored
\* questions as the API sent them.
C4_OptionsArePermutation ==
    /\ [](/\ page.main = "question" =>
              /\ IsPermutationOf(page.options,
                     [i \in DOMAIN ShownQuestion.incorrectAnswers |->
                         unescape(ShownQuestion.incorrectAnswers[i])]
                       \o <<unescape(ShownQuestion.correctAnswer)>>)
              /\ Len(page.options) = Len(ShownQuestion.incorrectAnswers) + 1
              /\ unescape(ShownQuestion.correctAnswer) \in Range(page.options)
          /\ \A q \in Range(session_state.questions) : q \in QuestionPool)
    /\ [][last_run'.event \in {"submit", "submit_stopped", "widget"}
              => session_state'.questions = session_state.questions]_vars

\* Q3 is on display, decoded, after a run that only redisplayed it.
C4_Witness ==
    /\ page.main = "question"
    /\ last_run.event = "widget"
    /\ ShownQuestion = Q3
    /\ page.options = << <<"A","&","B">>, <<"A","&","B">> >>

\* A step in which the Start Quiz handler fetched and got nothing, the run
\* completed or stopped.
FailedStart == /\ last_run.event \in {"start", "start_stopped"}
               /\ last_run.fetched
               /\ last_run.fetched_len = 0

\* A step in which the Start Quiz handler fetched a non-empty list, the run
\* completed or stopped.
SuccessfulStart == /\ last_run.event \in {"start", "start_stopped"}
                   /\ last_run.fetched_len > 0

\* C5: a start attempt in status NotStarted whose fetch yields no question
\* leaves the session NotStarted, with every key at its initial value, and
\* a run that was not stopped leaves the welcome page.
C5_EmptyFetchDoesNotStart ==
    [][(Status(session_state) = "NotStarted" /\ FailedStart')
        => /\ Status(session_state') = "NotStarted"
           /\ session_state' = Defaults
           /\ last_run'.event = "start" =>
                  /\ page'.main = "welcome"
                  /\ ~page'.results]_vars

\* C6: Start Quiz with no category selected calls no fetch, reports the
\* warning and leaves every session variable as it was.
C6_NoCategoryNoFetch ==
    [][(last_run'.event = "start" /\ selected_sports = {})
        => /\ ~last_run'.fetched
           /\ last_run'.notice = "warning"
           /\ session_state' = session_state]_vars

\* The warning was given in the middle of a quiz, which goes on.
C6_Witness ==
    /\ last_run.event = "start"
    /\ selected_sports = {}
    /\ last_run.notice = "warning"
    /\ last_run.from = "InProgress"
    /\ session_state.current_question = 1
    /\ page.main = "question"

\* C7: Play Again, whenever it is pressed, leaves every key at its initial
\* value, and a run that was not stopped leaves the welcome page.
C7_ResetClearsSession ==
    last_run.event \in {"play_again", "play_again_stopped"} =>
        /\ session_state = Defaults
        /\ Status(session_state) = "NotStarted"
        /\ last_run.event = "play_again" =>
               /\ page.main = "welcome"
               /\ ~page.results

\* C8, as claimed: the status changes only along
\* NotStarted -> InProgress -> Finished -> NotStarted, and no step restarts
\* a session that is in progress.
C8_StatusCycleOnly ==
    [][LET a == Status(session_state)
           b == Status(session_state')
       IN  /\ a # b => <<a, b>> \in { <<"NotStarted", "InProgress">>,
                                      <<"InProgress", "Finished">>,
                                      <<"Finished", "NotStarted">> }
           /\ ~(a = "InProgress" /\ SuccessfulStart' /\ b = "InProgress")]_vars

\* C8, amended: the status changes only from NotStarted to InProgress by a
\* start that fetched questions, from InProgress to Finished by a submit,
\* from Finished to NotStarted by Play Again, and from Finished to
\* InProgress by a start that fetched questions; a start that fetched
\* questions leaves the session InProgress if it ran to its end, whatever
\* the status before, and if it was pressed while InProgress, also when its
\* run was stopped.
C8_StatusTransitions ==
    [][LET a == Status(session_state)
           b == Status(session_state')
       IN  /\ a # b =>
                \/ a = "NotStarted" /\ b = "InProgress" /\ SuccessfulStart'
                \/ a = "InProgress" /\ b = "Finished" /\ Submitted'
                \/ a = "Finished" /\ b = "NotStarted"
                     /\ last_run'.event \in {"play_again", "play_again_stopped"}
                \/ a = "Finished" /\ b = "InProgress" /\ SuccessfulStart'
           /\ (SuccessfulStart' /\ last_run'.event = "start")
                => b = "InProgress"
           /\ (SuccessfulStart' /\ a = "InProgress") => b = "InProgress"]_vars

\* A successful start took a finished session straight to InProgress.
C8_Witness ==
    /\ SuccessfulStart
    /\ last_run.event = "start"
    /\ last_run.from = "Finished"
    /\ Status(session_state) = "InProgress"

\* C9: the score is non-negative, at most current_question, and the number
\* of answer records whose choice is their correct answer.
C9_ScoreInvariant ==
    /\ session_state.score >= 0
    /\ session_state.score <= session_state.current_question
    /\ session_state.score =
         Cardinality({i \in DOMAIN session_state.user_answers :
                        session_state.user_answers[i].user_choice
                          = session_state.user_answers[i].correct_answer})

\* C10, as claimed: between two states with quiz_started true,
\* current_question does not decrease.
C10_IndexNeverDecreases ==
    [][(session_state.quiz_started /\ session_state'.quiz_started)
        => session_state'.current_question >= session_state.current_question]_vars

\* C10, amended: between two states with quiz_started true,
\* current_question does not decrease, unless the step is a successful
\* Start Quiz, which sets it to 0.
C10_IndexMonotoneWithinSession ==
    [][(session_state.quiz_started /\ session_state'.quiz_started)
        => \/ session_state'.current_question >= session_state.current_question
           \/ SuccessfulStart' /\ session_state'.current_question = 0]_vars

\* A submit has advanced a session that goes on.
C10_Witness ==
    /\ last_run.event = "submit"
    /\ session_state.quiz_started
    /\ session_state.current_question = 1

\* C11: the results view is rendered only from a store in which every
\* fetched question has been answered (questions non-empty, current_question
\* = len(questions), a record for every index), and then the review has one
\* entry per question, in question order.
C11_ResultsOnlyWhenAllAnswered ==
    page.results =>
        /\ page.seen.questions # <<>>
        /\ page.seen.current_question = Len(page.seen.questions)
        /\ DOMAIN page.seen.user_answers
             = 0..(Len(page.seen.questions) - 1)
        /\ Len(page.review) = Len(page.seen.questions)
        /\ \A i \in DOMAIN page.review : page.review[i].index = i - 1

\* C12: a Start Quiz whose fetch returns a non-empty list leaves exactly that
\* list in questions, quiz_started true, score 0, current_question 0 and no
\* answer record, whatever the state before; a run that was not stopped
\* displays the first question.
C12_StartReplacesSession ==
    [][SuccessfulStart' =>
        /\ last_run'.fetched_questions # <<>>
        /\ session_state'.questions = last_run'.fetched_questions
        /\ session_state'.quiz_started
        /\ session_state'.score = 0
        /\ session_state'.current_question = 0
        /\ ~NonEmptyDict(session_state'.user_answers)
        /\ DOMAIN session_state' = DOMAIN Defaults
        /\ last_run'.event = "start" =>
               /\ page'.main = "question"
               /\ ~page'.results]_vars

\* C13: a submit records its answer under the index that was current before
\* the increment, with that question's decoded correct answer; and in every
\* state the keys of user_answers are 0..current_question-1 and record i
\* carries the decoded correct answer of questions[i].
C13_RecordsFollowQuestions ==
    [][/\ Submitted' =>
            LET index == session_state.current_question
            IN  /\ index \in DOMAIN session_state'.user_answers
                /\ session_state'.user_answers[index].correct_answer
                     = unescape(session_state.questions[index + 1].correctAnswer)
                /\ (last_run'.event = "submit" /\ stopped_runs' = 0) =>
                       session_state'.user_answers[index].user_choice
                         = log'[Len(log')].choice
       /\ DOMAIN session_state'.user_answers
            = 0..(session_state'.current_question - 1)
       /\ \A i \in DOMAIN session_state'.user_answers :
            /\ i + 1 \in DOMAIN session_state'.questions
            /\ session_state'.user_answers[i].correct_answer
                 = unescape(session_state'.questions[i + 1].correctAnswer)]_vars

\* C14: a Submit Answer writes a record for an index that has none yet and
\* was not submitted before in the session, leaves every existing record as
\* it was, changes the score by the new record's contribution only, and
\* advances current_question.
C14_OneSubmissionPerQuestion ==
    [][Submitted' =>
        LET index == session_state.current_question
        IN  /\ index \notin DOMAIN session_state.user_answers
            /\ \A i \in DOMAIN log : log[i].index # index
            /\ DOMAIN session_state'.user_answers
                 = DOMAIN session_state.user_answers \cup {index}
            /\ \A i \in DOMAIN session_state.user_answers :
                   session_state'.user_answers[i] = session_state.user_answers[i]
            /\ session_state'.score = session_state.score +
                 (IF session_state'.user_answers[index].user_choice
                       = session_state'.user_answers[index].correct_answer
                  THEN 1 ELSE 0)
            /\ session_state'.current_question = index + 1]_vars

\* C15: while quiz_started is true there is a current question: questions
\* is non-empty, 0 <= current_question < len(questions) and the progress
\* fraction is in (0, 1]; and no run has read a store in which this failed
\* (the page on display is not that of a run that raised at line 155).
C15_CurrentQuestionExists ==
    /\ session_state.quiz_started =>
          /\ session_state.questions # <<>>
          /\ 0 <= session_state.current_question
          /\ session_state.current_question < Len(session_state.questions)
          /\ session_state.current_question + 1 > 0
          /\ session_state.current_question + 1 <= Len(session_state.questions)
    /\ page.main # "error"

\* C16: a Start Quiz whose fetch yields no question leaves questions,
\* quiz_started, score, current_question and user_answers as they were.
C16_FailedStartChangesNothing ==
    [][FailedStart' => session_state' = session_state]_vars

\* C17: when the results view is rendered, the score it reports is at most
\* the total it reports, and the total is at least 1.
C17_ScoreAtMostTotal ==
    page.results =>
        /\ page.final_score = page.seen.score
        /\ page.total = Len(page.seen.questions)
        /\ page.final_score <= page.total
        /\ page.total >= 1

\* C18: the effects of Submit Answer are seen together or not at all, also
\* when another user event arrives during the run: a step other than Start
\* Quiz and Play Again either leaves user_answers, score, current_question
\* and quiz_started alone, or writes the record of the current index, adds
\* its contribution to the score, advances current_question and ends the
\* quiz if that was the last question; no run reads quiz_started true with
\* current_question = len(questions) (the page is not that of a run that
\* raised at line 155), and no store is left so.
C18_SubmitAtomic ==
    [][last_run'.event \notin {"start", "start_stopped", "play_again",
                               "play_again_stopped"} =>
        LET index == session_state.current_question
        IN  /\ \/ /\ session_state'.user_answers = session_state.user_answers
                  /\ session_state'.score = session_state.score
                  /\ session_state'.current_question = index
                  /\ session_state'.quiz_started = session_state.quiz_started
               \/ /\ index \in DOMAIN session_state'.user_answers
                  /\ session_state'.score = session_state.score +
                       (IF session_state'.user_answers[index].user_choice
                             = session_state'.user_answers[index].correct_answer
                        THEN 1 ELSE 0)
                  /\ session_state'.current_question = index + 1
                  /\ session_state'.quiz_started
                       = (index + 1 < Len(session_state.questions))
            /\ page'.main # "error"
            /\ ~(/\ session_state'.quiz_started
                 /\ session_state'.questions # <<>>
                 /\ session_state'.current_question
                      = Len(session_state'.questions))]_vars

====
